---- MODULE Spec2Model ----
(***************************************************************************)
(* Code generation of the integration implementation index                 *)
(* (IntegrationImplementationIndexModule: _mapIntegration, create, the     *)
(* content getter) and the emission of generated files                     *)
(* (ProjectCommand.writeGeneratedFilesToOutFolder).                        *)
(***************************************************************************)
EXTENDS Naturals, Sequences, FiniteSets, TLC

(* ------------------------------ bounds --------------------------------- *)

\* entries (events, states, actions, channels, messages) per section
MaxEntries == 1
\* files in the list handed to writeGeneratedFilesToOutFolder
MaxFiles == 3

(* ------------------- optional values of the source --------------------- *)

\* `undefined`
None == {}
\* a value that is present
Some(v) == {v}
Get(o) == CHOOSE v \in o : TRUE
\* a ?? d
OrElse(o, d) == IF o = None THEN d ELSE Get(o)
\* o?.f
OptField(o, f) == IF o = None THEN None ELSE Get(o)[f]

EmptyMap == [k \in {} |-> None]
Range(s) == {s[i] : i \in DOMAIN s}

(* ----------------------------- schemas --------------------------------- *)

\* a z.ZodObject of the raw definition
Zod(shape) == [kind |-> "zod", shape |-> shape]
\* the portable schema the translator produces
Json(shape) == [kind |-> "json", shape |-> shape]
\* the object literal {} of `{ schema: {} }`
EmptyObject == [kind |-> "object", shape |-> "literal"]

\* utils.schema.mapZodToJsonSchema: translates the Zod object of x.schema; the
\* translation is total, anything that is no structural schema becomes unknown
mapZodToJsonSchema(x) ==
  IF x.schema.kind = "zod" THEN Json(x.schema.shape) ELSE Json("unknown")

\* _mapSchema: ({ ...x, schema: mapZodToJsonSchema(x) })
_mapSchema(x) == [x EXCEPT !.schema = mapZodToJsonSchema(x)]

(* ----------------------- raw definitions (input) ----------------------- *)

NamePool == <<"ping", "text", "pong">>
\* the first n entry names
Names(n) == {NamePool[i] : i \in 1..n}
\* the maps with 0..MaxEntries entries, every entry drawn from V
MapsOf(V) == UNION {[Names(n) -> V] : n \in 0..MaxEntries}

Versions == {"1.0.0", "1.0.1"}

TagsA == [id |-> [title |-> "Id"]]
CreationOn == [enabled |-> TRUE, requiredTags |-> <<"id">>]
DefaultCreation == [enabled |-> FALSE, requiredTags |-> <<>>]

RawSchemaDef == [title |-> "t", schema |-> Zod("message")]
RawAction ==
  [title |-> "t", input |-> [schema |-> Zod("empty")], output |-> [schema |-> Zod("message")]]
RawChannelDefs ==
  { [conversation |-> None, message |-> None, messages |-> EmptyMap],
    [conversation |-> Some([tags |-> None, creation |-> None]),
     message |-> Some([tags |-> None]),
     messages |-> [n \in Names(1) |-> RawSchemaDef]],
    [conversation |-> Some([tags |-> Some(TagsA), creation |-> Some(CreationOn)]),
     message |-> Some([tags |-> Some(TagsA)]),
     messages |-> [n \in Names(MaxEntries) |-> RawSchemaDef]] }
RawUsers ==
  { None,
    Some([tags |-> None, creation |-> None]),
    Some([tags |-> Some(TagsA), creation |-> Some(CreationOn)]) }

Optional(S) == {None} \cup {Some(v) : v \in S}

\* bpsdk.IntegrationDefinition, every optional section present or absent
RawDefinitions ==
  [ name : {"demo"},
    version : {"1.0.0"},
    user : RawUsers,
    configuration : Optional({[schema |-> Zod("empty")]}),
    events : Optional(MapsOf({RawSchemaDef})),
    states : Optional(MapsOf({RawSchemaDef})),
    actions : Optional(MapsOf({RawAction})),
    channels : Optional(MapsOf(RawChannelDefs)) ]

(* -------------------------- _mapIntegration ---------------------------- *)

\* utils.records.mapValues(r, f) is written [k \in DOMAIN r |-> f(r[k])]

mapAction(a) == [input |-> _mapSchema(a.input), output |-> _mapSchema(a.output)]

mapChannel(c) ==
  [ conversation |->
      [ tags |-> OrElse(OptField(c.conversation, "tags"), EmptyMap),
        creation |-> OrElse(OptField(c.conversation, "creation"), DefaultCreation) ],
    message |-> [tags |-> OrElse(OptField(c.message, "tags"), EmptyMap)],
    messages |-> [k \in DOMAIN c.messages |-> _mapSchema(c.messages[k])] ]

\* the events section with the absent case passed through
mapEvents_PassThrough(i) ==
  IF i.events # None THEN Some([k \in DOMAIN Get(i.events) |-> _mapSchema(Get(i.events)[k])]) ELSE None

mapEvents(i) ==
  IF i.events # None THEN Some([k \in DOMAIN Get(i.events) |-> _mapSchema(Get(i.events)[k])]) ELSE Some(EmptyMap)

_mapIntegration(i) ==
  [ name |-> i.name,
    version |-> i.version,
    user |->
      [ tags |-> OrElse(OptField(i.user, "tags"), EmptyMap),
        creation |-> OrElse(OptField(i.user, "creation"), DefaultCreation) ],
    configuration |->
      IF i.configuration # None THEN Some(_mapSchema(Get(i.configuration)))
      ELSE Some([schema |-> EmptyObject]),
    events |-> mapEvents(i),
    states |->
      IF i.states # None THEN Some([k \in DOMAIN Get(i.states) |-> _mapSchema(Get(i.states)[k])]) ELSE Some(EmptyMap),
    actions |->
      IF i.actions # None THEN Some([k \in DOMAIN Get(i.actions) |-> mapAction(Get(i.actions)[k])]) ELSE Some(EmptyMap),
    channels |->
      IF i.channels # None THEN Some([k \in DOMAIN Get(i.channels) |-> mapChannel(Get(i.channels)[k])])
      ELSE Some(EmptyMap) ]

(* ------------------------------ modules -------------------------------- *)

INDEX_FILE == [dirs |-> <<>>, base |-> "index", ext |-> "ts"]
GENERATED_HEADER == "// generated header"

LeafVars == {"configModule", "actionsModule", "channelsModule", "eventsModule", "statesModule"}
InstId == <<"inst">>

\* the literal each leaf is unshifted with
SectionName_Shared(m) ==
  CASE m = "configModule" -> "configuration"
    [] m = "actionsModule" -> "actions"
    [] m = "channelsModule" -> "channels"
    [] m = "eventsModule" -> "events"
    [] m = "statesModule" -> "events"

SectionName(m) ==
  CASE m = "configModule" -> "configuration"
    [] m = "actionsModule" -> "actions"
    [] m = "channelsModule" -> "channels"
    [] m = "eventsModule" -> "events"
    [] m = "statesModule" -> "states"

\* the argument of each leaf's create, given the whole definition
LeafInput_Whole(m, integ) == integ

LeafInput(m, integ) ==
  CASE m = "configModule" -> OrElse(integ.configuration, [schema |-> EmptyObject])
    [] m = "actionsModule" -> OrElse(integ.actions, EmptyMap)
    [] m = "channelsModule" -> OrElse(integ.channels, EmptyMap)
    [] m = "eventsModule" -> OrElse(integ.events, EmptyMap)
    [] m = "statesModule" -> OrElse(integ.states, EmptyMap)

LeafExport(m) ==
  CASE m = "configModule" -> "Configuration"
    [] m = "actionsModule" -> "Actions"
    [] m = "channelsModule" -> "Channels"
    [] m = "eventsModule" -> "Events"
    [] m = "statesModule" -> "States"

NoModule ==
  [status |-> "none", path |-> INDEX_FILE, exportName |-> "", input |-> None,
   unshifts |-> 0]

\* <Leaf>Module.create(section): a module at index.ts
LeafCreate(m, input) ==
  [status |-> "created", path |-> INDEX_FILE, exportName |-> LeafExport(m),
   input |-> Some(input), unshifts |-> 0]

\* the sub-units a leaf's create registers below it: one per entry of its section
SubUnits(m, input) ==
  IF m = "configModule" THEN {} ELSE {<<m, e>> : e \in DOMAIN input}

\* Module.unshift(seg)
unshift(mod, seg) ==
  [mod EXCEPT !.path.dirs = <<seg>> \o @, !.unshifts = @ + 1]

\* Module.name: the directory of an index file, the file's stem otherwise
name(mod) ==
  IF mod.path.base = "index" /\ mod.path.dirs # <<>>
  THEN mod.path.dirs[Len(mod.path.dirs)]
  ELSE mod.path.base

\* Module.import(base): the path relative to base's directory, extension removed
import(mod, base) ==
  LET bd == base.path.dirs
      md == mod.path.dirs
      IsPrefix == Len(bd) <= Len(md) /\ \A k \in 1..Len(bd) : bd[k] = md[k]
  IN  IF IsPrefix
      THEN [dirs |-> SubSeq(md, Len(bd) + 1, Len(md)), base |-> mod.path.base]
      ELSE [dirs |-> [k \in 1..Len(bd) |-> ".."] \o md, base |-> mod.path.base]

\* a leaf's rendered source: a function of what its create received
LeafContent(mod) == <<"types of", mod.exportName, mod.input>>

\* stringifySingleLine
stringifySingleLine(x) == <<"json", x>>

(* ------------------- IntegrationImplementationIndexModule -------------- *)

VARIABLES
  sdkIntegration,  \* the raw definition handed to create
  integration,     \* create's local `integration` (None before it is mapped)
  pc,              \* position in the body of create
  modules,         \* the five leaf modules, by the local that holds them
  inst,            \* the index module
  deps,            \* the dependencies registered on each module
  reads,           \* the texts read from inst.content
  prevOut,         \* the output tree of the previous generation run
  lastEdit         \* what was edited in the definition before this run

createVars ==
  <<sdkIntegration, integration, pc, modules, inst, deps, reads, prevOut, lastEdit>>

VARIABLES
  files,      \* the argument: a list of codegen.File {path, content}
  fsDirs,     \* the directories that exist
  fsFiles,    \* the content of every file path ("absent" when there is none)
  wi,         \* the loop's position in files
  wpc,        \* "mkdir", "write", "done" (returned) or "threw"
  thrown,     \* the error the call rejected with
  raised,     \* the error the file system raised in this call
  wlog,       \* the file-system calls of this call that completed
  fsAtStart,  \* fsFiles when this call started
  prevRun     \* how the previous call over this list ended

writeVars == <<files, fsDirs, fsFiles, wi, wpc, thrown, raised, wlog, fsAtStart, prevRun>>

VARIABLES
  req,           \* the webhook request handed to the Intercom handler
  hpc,           \* the handler's position
  calls,         \* the calls made on the Botpress client, in order
  conversation,  \* the handler's local `conversation`
  hi,            \* the message being created: 0 the source, k the k-th part
  herror         \* the error the handler threw

handlerVars == <<req, hpc, calls, conversation, hi, herror>>

VARIABLES
  props,    \* the channel message being sent: its type, payload and conversation
  spc,      \* sendMessage's position
  scalls,   \* the calls to replyByIdAsAdmin and ack, in order
  reply,    \* what replyByIdAsAdmin resolved with
  serror    \* the error the message handler threw

sendVars == <<props, spc, scalls, reply, serror>>

VARIABLES
  integrationDef,  \* promptSecrets' integrationDef (its secrets)
  argv,            \* argv.secrets
  ppc,             \* promptSecrets' position
  secretIdx,       \* the declared secret the loop is at
  values,          \* the local `values`
  prompts,         \* the prompts issued, in order
  answers,         \* the answers the prompts got, in order
  presult,         \* the record promptSecrets returned
  perror           \* the error promptSecrets threw

secretVars == <<integrationDef, argv, ppc, secretIdx, values, prompts, answers, presult, perror>>

vars == <<createVars, writeVars, handlerVars, sendVars, secretVars>>

Stmt(op, m) == [op |-> op, m |-> m]

\* the body of create with the index constructed before the last leaf exists
CreateBody_EarlyNew ==
  << Stmt("map", ""),
     Stmt("create", "configModule"), Stmt("unshift", "configModule"),
     Stmt("create", "actionsModule"), Stmt("unshift", "actionsModule"),
     Stmt("create", "channelsModule"), Stmt("unshift", "channelsModule"),
     Stmt("create", "eventsModule"), Stmt("unshift", "eventsModule"),
     Stmt("new", ""),
     Stmt("create", "statesModule"), Stmt("unshift", "statesModule"),
     Stmt("pushDep", "configModule"), Stmt("pushDep", "actionsModule"),
     Stmt("pushDep", "channelsModule"), Stmt("pushDep", "eventsModule"),
     Stmt("pushDep", "statesModule"),
     Stmt("return", "") >>

\* the body of create with one leaf moved under its section after registration
CreateBody_LateUnshift ==
  << Stmt("map", ""),
     Stmt("create", "configModule"), Stmt("unshift", "configModule"),
     Stmt("create", "actionsModule"), Stmt("unshift", "actionsModule"),
     Stmt("create", "channelsModule"), Stmt("unshift", "channelsModule"),
     Stmt("create", "eventsModule"), Stmt("unshift", "eventsModule"),
     Stmt("create", "statesModule"),
     Stmt("new", ""),
     Stmt("pushDep", "configModule"), Stmt("pushDep", "actionsModule"),
     Stmt("pushDep", "channelsModule"), Stmt("pushDep", "eventsModule"),
     Stmt("pushDep", "statesModule"),
     Stmt("unshift", "statesModule"),
     Stmt("return", "") >>

\* the statements of create, in program order
CreateBody ==
  << Stmt("map", ""),
     Stmt("create", "configModule"), Stmt("unshift", "configModule"),
     Stmt("create", "actionsModule"), Stmt("unshift", "actionsModule"),
     Stmt("create", "channelsModule"), Stmt("unshift", "channelsModule"),
     Stmt("create", "eventsModule"), Stmt("unshift", "eventsModule"),
     Stmt("create", "statesModule"), Stmt("unshift", "statesModule"),
     Stmt("new", ""),
     Stmt("pushDep", "configModule"), Stmt("pushDep", "actionsModule"),
     Stmt("pushDep", "channelsModule"), Stmt("pushDep", "eventsModule"),
     Stmt("pushDep", "statesModule"),
     Stmt("return", "") >>

Returned == Len(CreateBody) + 1
At(op) == pc \in DOMAIN CreateBody /\ CreateBody[pc].op = op
Cur == CreateBody[pc]

NoInst ==
  [status |-> "none", integration |-> None,
   def |-> [path |-> INDEX_FILE, exportName |-> "", content |-> <<>>]]

\* new IntegrationImplementationIndexModule(integration, ...leaves, def)
NewInst(integ) ==
  [status |-> "constructed", integration |-> integ,
   def |-> [path |-> INDEX_FILE, exportName |-> "Integration", content |-> <<>>]]

\* the receiver and the argument of a pushDep call, reversed
PushDepCall_Reversed(m) == [consumer |-> <<m>>, dep |-> InstId]

\* inst.pushDep(m)
PushDepCall(m) == [consumer |-> InstId, dep |-> <<m>>]

ModuleIds == {InstId} \cup {<<m>> : m \in LeafVars}
NoDeps == [id \in ModuleIds |-> {}]

\* Module.pushDep: the consumer records the dependency
pushDep(d, call) == [d EXCEPT ![call.consumer] = @ \cup {call.dep}]

\* the content getter keeping its text in the module's definition
content_Stateful(self, mods) ==
  LET text == self.def.content \o <<<<GENERATED_HEADER, self.integration>>>>
  IN  [text |-> text, self |-> [self EXCEPT !.def.content = text]]

\* get content(): the text, and the module after the read
content(self, mods) ==
  LET integ == Get(self.integration)
      Order == <<"configModule", "actionsModule", "channelsModule", "eventsModule",
                 "statesModule">>
      Field == <<"configuration", "actions", "channels", "events", "states">>
      ImportLine(k) ==
        <<"import type * as", name(mods[Order[k]]), "from ./", import(mods[Order[k]], self.def)>>
      ExportLine(k) ==
        <<"export * as", name(mods[Order[k]]), "from ./", import(mods[Order[k]], self.def)>>
      TypeLine(k) ==
        <<Field[k], name(mods[Order[k]]), ".", mods[Order[k]].exportName>>
      text ==
        << <<GENERATED_HEADER, GENERATED_HEADER>>,
           <<"import * as sdk from @botpress/sdk">>,
           <<"">> >>
        \o [k \in 1..5 |-> ImportLine(k)]
        \o [k \in 1..5 |-> ExportLine(k)]
        \o << <<"">>,
              <<"type TIntegration = {">>,
              <<"name", integ.name>>,
              <<"version", integ.version>> >>
        \o [k \in 1..5 |-> TypeLine(k)]
        \o << <<"user", stringifySingleLine(integ.user)>>,
              <<"}">>,
              <<"">>,
              <<"export type IntegrationProps = sdk.IntegrationProps<TIntegration>">>,
              <<"">>,
              <<"export class Integration extends sdk.Integration<TIntegration> {}">>,
              <<"">>,
              <<"export type Client = sdk.IntegrationSpecificClient<TIntegration>">> >>
  IN  [text |-> text, self |-> self]

\* the line of the text that holds the version literal
VersionLine == 17

\* flatten(): the files of the graph below inst, with the text read from it
OutputTree ==
  [ index |-> [path |-> inst.def.path, exports |-> inst.def.exportName,
               content |-> Get(reads)],
    leaves |-> [m \in LeafVars |->
                  [path |-> modules[m].path, name |-> name(modules[m]),
                   exports |-> modules[m].exportName,
                   content |-> LeafContent(modules[m])]] ]

CreateInit ==
  /\ sdkIntegration \in RawDefinitions
  /\ integration = None
  /\ pc = 1
  /\ modules = [m \in LeafVars |-> NoModule]
  /\ inst = NoInst
  /\ deps = NoDeps
  /\ reads = {}
  /\ prevOut = None
  /\ lastEdit = "first"
  \* the writer is at rest while a generation runs
  /\ files = <<>>
  /\ fsDirs = {<<>>}
  /\ fsFiles = [p \in {} |-> "absent"]
  /\ wi = 1
  /\ wpc = "mkdir"
  /\ thrown = None
  /\ raised = None
  /\ wlog = <<>>
  /\ fsAtStart = fsFiles
  /\ prevRun = [result |-> "none", at |-> 0]
  \* the integration and the secrets prompt are at rest
  /\ req = [body |-> [kind |-> "empty", json |-> None]]
  /\ hpc = "idle"
  /\ calls = <<>>
  /\ conversation = None
  /\ hi = 0
  /\ herror = None
  /\ props = None
  /\ spc = "idle"
  /\ scalls = <<>>
  /\ reply = None
  /\ serror = None
  /\ integrationDef = [secrets |-> None]
  /\ argv = <<>>
  /\ ppc = "idle"
  /\ secretIdx = 1
  /\ values = EmptyMap
  /\ prompts = <<>>
  /\ answers = <<>>
  /\ presult = None
  /\ perror = None

\* const integration = this._mapIntegration(sdkIntegration)
MapIntegration ==
  /\ UNCHANGED <<writeVars, handlerVars, sendVars, secretVars>>
  /\ At("map")
  /\ integration' = Some(_mapIntegration(sdkIntegration))
  /\ pc' = pc + 1
  /\ UNCHANGED <<sdkIntegration, modules, inst, deps, reads, prevOut, lastEdit>>

\* <Leaf>Module.create(integration.<section> ?? <empty>) is called
CallCreate ==
  /\ UNCHANGED <<writeVars, handlerVars, sendVars, secretVars>>
  /\ At("create")
  /\ modules[Cur.m].status = "none"
  /\ modules' = [modules EXCEPT ![Cur.m].status = "creating",
                                ![Cur.m].input = Some(LeafInput(Cur.m, Get(integration)))]
  /\ UNCHANGED <<sdkIntegration, integration, pc, inst, deps, reads, prevOut, lastEdit>>

\* await: the leaf's create resolves and the local is bound
AwaitCreate ==
  /\ UNCHANGED <<writeVars, handlerVars, sendVars, secretVars>>
  /\ At("create")
  /\ modules[Cur.m].status = "creating"
  /\ modules' = [modules EXCEPT ![Cur.m] = LeafCreate(Cur.m, Get(modules[Cur.m].input))]
  /\ deps' = [deps EXCEPT ![<<Cur.m>>] = SubUnits(Cur.m, Get(modules[Cur.m].input))]
  /\ pc' = pc + 1
  /\ UNCHANGED <<sdkIntegration, integration, inst, reads, prevOut, lastEdit>>

\* <leaf>.unshift('<section>')
Unshift ==
  /\ UNCHANGED <<writeVars, handlerVars, sendVars, secretVars>>
  /\ At("unshift")
  /\ modules' = [modules EXCEPT ![Cur.m] = unshift(@, SectionName(Cur.m))]
  /\ pc' = pc + 1
  /\ UNCHANGED <<sdkIntegration, integration, inst, deps, reads, prevOut, lastEdit>>

\* const inst = new IntegrationImplementationIndexModule(...)
Construct ==
  /\ UNCHANGED <<writeVars, handlerVars, sendVars, secretVars>>
  /\ At("new")
  /\ inst' = NewInst(integration)
  /\ pc' = pc + 1
  /\ UNCHANGED <<sdkIntegration, integration, modules, deps, reads, prevOut, lastEdit>>

\* inst.pushDep(<leaf>)
PushDep ==
  /\ UNCHANGED <<writeVars, handlerVars, sendVars, secretVars>>
  /\ At("pushDep")
  /\ deps' = pushDep(deps, PushDepCall(Cur.m))
  /\ pc' = pc + 1
  /\ UNCHANGED <<sdkIntegration, integration, modules, inst, reads, prevOut, lastEdit>>

\* return inst
Return ==
  /\ UNCHANGED <<writeVars, handlerVars, sendVars, secretVars>>
  /\ At("return")
  /\ pc' = Returned
  /\ UNCHANGED <<sdkIntegration, integration, modules, inst, deps, reads, prevOut, lastEdit>>

\* a read of inst.content by the caller
ReadContent ==
  /\ UNCHANGED <<writeVars, handlerVars, sendVars, secretVars>>
  /\ pc = Returned
  /\ LET r == content(inst, modules)
     IN  /\ reads' = reads \cup {r.text}
         /\ inst' = r.self
  /\ UNCHANGED <<sdkIntegration, integration, pc, modules, deps, prevOut, lastEdit>>

\* the generation is run again from scratch, on the same definition or after
\* an edit of its version field only
Regenerate ==
  /\ UNCHANGED <<writeVars, handlerVars, sendVars, secretVars>>
  /\ pc = Returned
  /\ Cardinality(reads) = 1
  /\ \E v \in Versions :
       /\ sdkIntegration' = [sdkIntegration EXCEPT !.version = v]
       /\ lastEdit' = IF v = sdkIntegration.version THEN "none" ELSE "version"
  /\ prevOut' = Some(OutputTree)
  /\ integration' = None
  /\ pc' = 1
  /\ modules' = [m \in LeafVars |-> NoModule]
  /\ inst' = NoInst
  /\ deps' = NoDeps
  /\ reads' = {}

CreateNext ==
  \/ MapIntegration
  \/ CallCreate
  \/ AwaitCreate
  \/ Unshift
  \/ Construct
  \/ PushDep
  \/ Return
  \/ ReadContent
  \/ Regenerate

SpecCreate == CreateInit /\ [][CreateNext]_vars

(* ----------------------- properties of generation ---------------------- *)

SectionFields == {"configuration", "actions", "channels", "events", "states"}
MapFields == {"actions", "channels", "events", "states"}
FieldOf(m) == SectionName(m)
Mapped == integration # None
Emitted == pc = Returned /\ reads # {}

\* a canonical definition handed to _mapIntegration again: every section present
AsInput(c) ==
  [ name |-> c.name,
    version |-> c.version,
    user |-> Some([tags |-> Some(c.user.tags), creation |-> Some(c.user.creation)]),
    configuration |-> c.configuration,
    events |-> c.events,
    states |-> c.states,
    actions |-> c.actions,
    channels |->
      IF c.channels = None THEN None
      ELSE Some([k \in DOMAIN Get(c.channels) |->
             LET ch == Get(c.channels)[k]
             IN  [ conversation |-> Some([tags |-> Some(ch.conversation.tags),
                                          creation |-> Some(ch.conversation.creation)]),
                   message |-> Some([tags |-> Some(ch.message.tags)]),
                   messages |-> ch.messages ]]) ]

\* C1: normalization is idempotent: mapping the mapped definition again
\* returns it unchanged, normalize(normalize(d)) = normalize(d).
C1_NormalizeIdempotent ==
  Mapped => _mapIntegration(AsInput(Get(integration))) = Get(integration)

\* C2: every optional section absent from the raw definition is present in the
\* mapped one in its empty form (empty mapping, {schema: empty object},
\* {enabled: false, requiredTags: empty}, empty tags), a present section keeps
\* its key set, and every leaf create receives a section that is present.
C2_SectionsMaterialized ==
  Mapped =>
    LET raw == sdkIntegration
        c == Get(integration)
    IN  /\ \A f \in SectionFields : c[f] # None
        /\ raw.configuration = None => Get(c.configuration) = [schema |-> EmptyObject]
        /\ \A f \in MapFields :
             IF raw[f] = None THEN Get(c[f]) = EmptyMap
             ELSE DOMAIN Get(c[f]) = DOMAIN Get(raw[f])
        /\ c.user.tags = OrElse(OptField(raw.user, "tags"), EmptyMap)
        /\ OptField(raw.user, "tags") = None => c.user.tags = EmptyMap
        /\ OptField(raw.user, "creation") = None => c.user.creation = DefaultCreation
        /\ OptField(raw.user, "creation") # None =>
             c.user.creation = Get(OptField(raw.user, "creation"))
        /\ raw.channels # None =>
             \A k \in DOMAIN Get(raw.channels) :
               LET rc == Get(raw.channels)[k]
                   cc == Get(c.channels)[k]
               IN  /\ OptField(rc.conversation, "tags") = None => cc.conversation.tags = EmptyMap
                   /\ OptField(rc.conversation, "creation") = None =>
                        cc.conversation.creation = DefaultCreation
                   /\ OptField(rc.message, "tags") = None => cc.message.tags = EmptyMap
                   /\ DOMAIN cc.messages = DOMAIN rc.messages
        /\ \A m \in LeafVars :
             modules[m].status # "none" =>
               /\ modules[m].input # None
               /\ Get(modules[m].input) = Get(c[FieldOf(m)])

C2_Witness ==
  /\ pc = Returned
  /\ sdkIntegration.user = None
  /\ sdkIntegration.configuration = None
  /\ sdkIntegration.actions = None
  /\ sdkIntegration.events # None /\ DOMAIN Get(sdkIntegration.events) # {}
  /\ sdkIntegration.channels # None
  /\ \E k \in DOMAIN Get(sdkIntegration.channels) :
       Get(sdkIntegration.channels)[k].conversation = None

\* C3: regenerating after an edit of the version field only leaves every leaf
\* module's path, name, exports and content as they were, and changes the
\* index module's text in the version line only.
C3_VersionEditFrame ==
  (Emitted /\ prevOut # None /\ lastEdit = "version") =>
    LET cur == OutputTree
        prev == Get(prevOut)
    IN  /\ cur.leaves = prev.leaves
        /\ cur.index.path = prev.index.path
        /\ cur.index.exports = prev.index.exports
        /\ Len(cur.index.content) = Len(prev.index.content)
        /\ \A l \in DOMAIN cur.index.content :
             l # VersionLine => cur.index.content[l] = prev.index.content[l]
        /\ cur.index.content[VersionLine] = <<"version", sdkIntegration.version>>
        /\ cur.index.content[VersionLine] # prev.index.content[VersionLine]

C3_Witness ==
  /\ Emitted /\ prevOut # None /\ lastEdit = "version"
  /\ sdkIntegration.actions # None /\ DOMAIN Get(sdkIntegration.actions) # {}
  /\ sdkIntegration.configuration # None

Aliases(text) == [k \in 1..5 |-> text[3 + k][2]]

\* C5: the five import aliases the index module emits are pairwise distinct.
C5_AliasesDistinct ==
  /\ pc = Returned =>
       \A m1, m2 \in LeafVars : m1 # m2 => name(modules[m1]) # name(modules[m2])
  /\ \A t \in reads :
       /\ \A j, k \in 1..5 : j # k => Aliases(t)[j] # Aliases(t)[k]
       /\ \A k \in 1..5 : t[8 + k][2] = Aliases(t)[k]

C5_Witness ==
  /\ Emitted
  /\ \A f \in MapFields : sdkIntegration[f] # None /\ DOMAIN Get(sdkIntegration[f]) # {}

AllLeaves == {<<m>> : m \in LeafVars}

\* C6: the five leaf creates have all completed before the index module is
\* constructed, and create returns only after the five leaves are registered.
C6_LeavesJoinedFirst ==
  /\ inst.status = "constructed" => \A m \in LeafVars : modules[m].status = "created"
  /\ \A m \in LeafVars : <<m>> \in deps[InstId] => inst.status = "constructed"
  /\ pc = Returned => inst.status = "constructed" /\ deps[InstId] = AllLeaves

C6_Witness ==
  /\ inst.status = "constructed"
  /\ deps[InstId] = AllLeaves
  /\ \A m \in LeafVars : modules[m].status = "created"

Succ(n) == IF n \in ModuleIds THEN deps[n] ELSE {}
RECURSIVE Closure(_)
Closure(S) ==
  LET T == S \cup UNION {Succ(x) : x \in S}
  IN  IF T = S THEN S ELSE Closure(T)
Nodes == ModuleIds \cup UNION {deps[n] : n \in ModuleIds}
\* the modules reached from n along one or more dependency edges
ReachFrom(n) == Closure(Succ(n))

\* C7: the dependency graph create builds is acyclic: the index module's edges
\* go to the five leaves only and no leaf reaches the index module.
C7_Acyclic ==
  /\ deps[InstId] \subseteq AllLeaves
  /\ \A m \in LeafVars : InstId \notin ReachFrom(<<m>>)
  /\ \A n \in Nodes : n \notin ReachFrom(n)

C7_Witness ==
  /\ pc = Returned
  /\ deps[InstId] = AllLeaves
  /\ deps[<<"channelsModule">>] # {}
  /\ deps[<<"actionsModule">>] # {}

\* C8: each leaf's path prefix is mutated once, by one unshift with its own
\* section name, before the leaf is registered with pushDep; once the index
\* module is constructed only its own dependency set changes.
C8_UnshiftOnce ==
  /\ [](\A m \in LeafVars :
          /\ modules[m].unshifts <= 1
          /\ modules[m].unshifts = 1 => modules[m].path.dirs = <<SectionName(m)>>
          /\ <<m>> \in deps[InstId] => modules[m].unshifts = 1
          /\ pc = Returned => modules[m].unshifts = 1)
  /\ [][(inst.status = "constructed" /\ inst'.status = "constructed") =>
          /\ modules' = modules
          /\ \A m \in LeafVars : deps'[<<m>>] = deps[<<m>>]]_vars

C8_Witness ==
  /\ pc = Returned
  /\ \A m \in LeafVars : modules[m].unshifts = 1 /\ <<m>> \in deps[InstId]

(* ------------------- writeGeneratedFilesToOutFolder -------------------- *)

\* this.projectPaths.abs.outDir
outDir == <<"work", "out">>

File(dirs, base) == [path |-> [dirs |-> dirs, base |-> base], content |-> "new"]
FilePool ==
  << File(<<"actions">>, "index.ts"), File(<<"actions">>, "ping.ts"),
     File(<<>>, "index.ts"), File(<<"configuration">>, "index.ts") >>
PoolPaths == {FilePool[k].path : k \in DOMAIN FilePool}

\* the lists of at most MaxFiles files with pairwise distinct paths
FileLists ==
  UNION {{l \in [1..n -> Range(FilePool)] : \A j, k \in 1..n : j # k => l[j] # l[k]}
           : n \in 0..MaxFiles}

\* utils.path.absoluteFrom(outDir, file.path), then pathlib.dirname
dirPath(file) == outDir \o file.path.dirs

Prefixes(d) == {SubSeq(d, 1, k) : k \in 0..Len(d)}

\* the option object of the mkdir call, without recursive
MkdirOptions_Plain == [recursive |-> FALSE]

\* { recursive: true }
MkdirOptions == [recursive |-> TRUE]

\* fs.promises.mkdir(d, opts) on a healthy file system
mkdir(dirs, d, opts) ==
  IF opts.recursive
  THEN [err |-> None, dirs |-> dirs \cup Prefixes(d)]
  ELSE IF d \in dirs THEN [err |-> Some("EEXIST"), dirs |-> dirs]
  ELSE IF SubSeq(d, 1, Len(d) - 1) \notin dirs THEN [err |-> Some("ENOENT"), dirs |-> dirs]
  ELSE [err |-> None, dirs |-> dirs \cup {d}]

\* the failures the file system can raise on its own
FsErrors == {"EACCES", "ENOSPC"}

\* an awaited call rejects and the rejection is caught, the loop going on
OnReject_Swallow(err, i) == [wpc |-> "mkdir", wi |-> i + 1, thrown |-> None]

\* an awaited call rejects inside the loop: nothing catches it
OnReject(err, i) == [wpc |-> "threw", wi |-> i, thrown |-> Some(err)]

FreshFs == [dirs |-> {<<>>, <<"work">>}, files |-> [p \in PoolPaths |-> "absent"]]
GeneratedFs ==
  [dirs |-> UNION {Prefixes(dirPath(FilePool[k])) : k \in DOMAIN FilePool},
   files |-> [p \in PoolPaths |-> "old"]]

WriteInit ==
  /\ files \in FileLists
  /\ \E fs \in {FreshFs, GeneratedFs} : fsDirs = fs.dirs /\ fsFiles = fs.files
  /\ wi = 1
  /\ wpc = "mkdir"
  /\ thrown = None
  /\ raised = None
  /\ wlog = <<>>
  /\ fsAtStart = fsFiles
  /\ prevRun = [result |-> "none", at |-> 0]
  \* no generation is in progress while the files are written
  /\ sdkIntegration = [name |-> "demo", version |-> "1.0.0"]
  /\ integration = None
  /\ pc = 1
  /\ modules = [m \in LeafVars |-> NoModule]
  /\ inst = NoInst
  /\ deps = NoDeps
  /\ reads = {}
  /\ prevOut = None
  /\ lastEdit = "first"
  \* the integration and the secrets prompt are at rest
  /\ req = [body |-> [kind |-> "empty", json |-> None]]
  /\ hpc = "idle"
  /\ calls = <<>>
  /\ conversation = None
  /\ hi = 0
  /\ herror = None
  /\ props = None
  /\ spc = "idle"
  /\ scalls = <<>>
  /\ reply = None
  /\ serror = None
  /\ integrationDef = [secrets |-> None]
  /\ argv = <<>>
  /\ ppc = "idle"
  /\ secretIdx = 1
  /\ values = EmptyMap
  /\ prompts = <<>>
  /\ answers = <<>>
  /\ presult = None
  /\ perror = None

Reject(err) ==
  LET r == OnReject(err, wi)
  IN  /\ wpc' = r.wpc
      /\ wi' = r.wi
      /\ thrown' = r.thrown
      /\ raised' = Some(err)

\* await fs.promises.mkdir(dirPath, { recursive: true })
Mkdir ==
  /\ UNCHANGED <<createVars, handlerVars, sendVars, secretVars>>
  /\ wpc = "mkdir"
  /\ wi <= Len(files)
  /\ LET r == mkdir(fsDirs, dirPath(files[wi]), MkdirOptions)
     IN  \/ /\ r.err = None
            /\ fsDirs' = r.dirs
            /\ wlog' = Append(wlog, [op |-> "mkdir", i |-> wi])
            /\ wpc' = "write"
            /\ UNCHANGED <<wi, thrown, raised>>
         \/ /\ r.err # None
            /\ Reject(Get(r.err))
            /\ UNCHANGED <<fsDirs, wlog>>
  /\ UNCHANGED <<files, fsFiles, fsAtStart, prevRun>>

\* the file system fails the mkdir (permissions, disk full)
MkdirFails ==
  /\ UNCHANGED <<createVars, handlerVars, sendVars, secretVars>>
  /\ wpc = "mkdir"
  /\ wi <= Len(files)
  /\ \E e \in FsErrors : Reject(e)
  /\ UNCHANGED <<files, fsDirs, fsFiles, wlog, fsAtStart, prevRun>>

\* await fs.promises.writeFile(filePath, file.content)
WriteFile ==
  /\ UNCHANGED <<createVars, handlerVars, sendVars, secretVars>>
  /\ wpc = "write"
  /\ IF dirPath(files[wi]) \in fsDirs
     THEN /\ fsFiles' = [fsFiles EXCEPT ![files[wi].path] = files[wi].content]
          /\ wlog' = Append(wlog, [op |-> "write", i |-> wi])
          /\ wi' = wi + 1
          /\ wpc' = "mkdir"
          /\ UNCHANGED <<thrown, raised>>
     ELSE /\ Reject("ENOENT")
          /\ UNCHANGED <<fsFiles, wlog>>
  /\ UNCHANGED <<files, fsDirs, fsAtStart, prevRun>>

\* the file system fails the write: the file is left as it was or torn
WriteFileFails ==
  /\ UNCHANGED <<createVars, handlerVars, sendVars, secretVars>>
  /\ wpc = "write"
  /\ \E e \in FsErrors : Reject(e)
  /\ \E c \in {fsFiles[files[wi].path], "torn"} :
       fsFiles' = [fsFiles EXCEPT ![files[wi].path] = c]
  /\ UNCHANGED <<files, fsDirs, wlog, fsAtStart, prevRun>>

\* the for loop is over: the call resolves
LoopEnd ==
  /\ UNCHANGED <<createVars, handlerVars, sendVars, secretVars>>
  /\ wpc = "mkdir"
  /\ wi > Len(files)
  /\ wpc' = "done"
  /\ UNCHANGED <<files, fsDirs, fsFiles, wi, thrown, raised, wlog, fsAtStart, prevRun>>

\* the command is run again over the same list
Rerun ==
  /\ UNCHANGED <<createVars, handlerVars, sendVars, secretVars>>
  /\ wpc \in {"done", "threw"}
  /\ prevRun' = [result |-> wpc, at |-> IF wpc = "threw" THEN wi ELSE 0]
  /\ wi' = 1
  /\ wpc' = "mkdir"
  /\ thrown' = None
  /\ raised' = None
  /\ wlog' = <<>>
  /\ fsAtStart' = fsFiles
  /\ UNCHANGED <<files, fsDirs, fsFiles>>

WriteNext ==
  \/ Mkdir
  \/ MkdirFails
  \/ WriteFile
  \/ WriteFileFails
  \/ LoopEnd
  \/ Rerun

SpecWrite == WriteInit /\ [][WriteNext]_vars

(* ------------------------ properties of emission ----------------------- *)

Written(j) == fsFiles[files[j].path] = files[j].content

\* C9: for every file the recursive creation of its directory completes
\* before its write starts, an existing directory is no error, and every file
\* of the list is written when the file system raises no failure.
C9_MkdirBeforeWrite ==
  /\ wpc = "write" => dirPath(files[wi]) \in fsDirs
  /\ \A p \in DOMAIN wlog :
       wlog[p].op = "write" =>
         \E q \in 1..(p - 1) : wlog[q] = [op |-> "mkdir", i |-> wlog[p].i]
  /\ thrown # None => \E e \in FsErrors : raised = Some(e)
  /\ wpc = "done" => \A j \in DOMAIN files : Written(j)

C9_Witness ==
  /\ wpc = "done"
  /\ prevRun.result = "none"
  /\ \E j, k \in DOMAIN files :
       j < k /\ dirPath(files[j]) = dirPath(files[k]) /\ Len(files[j].path.dirs) > 0
  /\ fsAtStart = FreshFs.files

\* C10: a failure at the k-th file is propagated as raised, leaves the files
\* before k written and the files after k untouched, and a later successful
\* run over the same list leaves every listed file with its new content.
C10_FailureNotTransactional ==
  /\ raised # None <=> wpc = "threw"
  /\ wpc = "threw" =>
       /\ thrown = raised
       /\ \A j \in DOMAIN files :
            /\ j < wi => Written(j)
            /\ j > wi => /\ fsFiles[files[j].path] = fsAtStart[files[j].path]
                         /\ \A p \in DOMAIN wlog : wlog[p].i # j
  /\ (wpc = "done" /\ prevRun.result = "threw") => \A j \in DOMAIN files : Written(j)

C10_Witness ==
  /\ wpc = "done"
  /\ prevRun = [result |-> "threw", at |-> 2]
  /\ Len(files) = 3
  /\ \E j \in DOMAIN files : fsAtStart[files[j].path] # "new"

(* --------------------- Intercom: the webhook handler ------------------- *)

\* parts of a notification's conversation_parts list
MaxParts == 2

\* ctx.configuration.adminId
ConfigAdminId == "7"

Message(id, authorId, authorType, body) ==
  [id |-> id, author |-> [id |-> authorId, type |-> authorType], body |-> body]

\* a conversation part is a message with a type
Part(type, m) == [type |-> type, id |-> m.id, author |-> m.author, body |-> m.body]

\* the messages Intercom sends: from a user or from a bot, with a body, a null
\* body or an empty one, with or without an id
MessagesOf(id) ==
  { Message(id, "u1", "user", Some("<p>hi</p>")),
    Message(id, "b1", "bot", Some("<p>hi</p>")),
    Message(id, "u1", "user", None),
    Message(id, "u1", "user", Some("")),
    Message("", "u1", "user", Some("<p>hi</p>")),
    Message("", "b1", "bot", None) }

SourcesOf ==
  { Message("source", "u1", "user", Some("<p>hi</p>")),
    Message("source", "b1", "bot", Some("<p>hi</p>")),
    Message("", "u1", "user", Some("<p>hi</p>")) }

PartsAt(k) == {Part("conversation_part", m) : m \in MessagesOf(NamePool[k])}

PartLists ==
  UNION {{l \in [1..n -> UNION {PartsAt(k) : k \in 1..n}] :
            \A k \in 1..n : l[k] \in PartsAt(k)} : n \in 0..MaxParts}

Topics == {"conversation.user.created", "conversation.user.replied", "conversation.admin.replied"}

Notification(type, topic, itemType, assignee, id, source, parts) ==
  [ type |-> type,
    topic |-> topic,
    data |-> [item |-> [ type |-> itemType,
                         admin_assignee_id |-> assignee,
                         id |-> id,
                         source |-> source,
                         conversation_parts |-> [conversation_parts |-> parts] ]] ]

\* the JSON values a webhook body can hold
Notifications ==
  { Notification("notification_event", t, "conversation", a, id, src, parts) :
      t \in Topics, a \in {None, Some(0), Some(7), Some(8)}, id \in {"", "c1"},
      src \in SourcesOf, parts \in PartLists }
  \cup
  { Notification(ty, "conversation.user.created", ity, Some(7), "c1",
                 Message("source", "u1", "user", Some("<p>hi</p>")), <<>>) :
      ty \in {"notification_event", "ping"}, ity \in {"conversation", "contact"} }
  \cup
  { Notification("notification_event", "conversation.user.created", "conversation", Some(7), "c1",
                 Message("source", "u1", "user", Some("<p>hi</p>")),
                 <<Part("note", Message("n1", "u1", "user", Some("<p>hi</p>")))>>) }

\* req.body: an empty string, a text that is no JSON, or a JSON text
Requests ==
  { [body |-> [kind |-> "empty", json |-> None]],
    [body |-> [kind |-> "text", json |-> None]] }
  \cup {[body |-> [kind |-> "json", json |-> Some(n)]] : n \in Notifications}

\* admin_assignee_id: z.number().nullable().transform(val => val ? val.toString() : null)
transformAssignee(val) ==
  IF val # None /\ Get(val) # 0 THEN Some(ToString(Get(val))) ELSE None

\* webhookNotificationSchema.safeParse(json)
safeParse(json) ==
  LET item == json.data.item
      ok == /\ json.type = "notification_event"
            /\ item.type = "conversation"
            /\ \A k \in DOMAIN item.conversation_parts.conversation_parts :
                 item.conversation_parts.conversation_parts[k].type = "conversation_part"
  IN  IF ok
      THEN [success |-> TRUE,
            data |-> [json EXCEPT !.data.item.admin_assignee_id = transformAssignee(@)]]
      ELSE [success |-> FALSE, data |-> json]

\* the topic of the notifications another admin's topic would be ignored for
IgnoredTopic_Other == "conversation.admin.closed"

\* the topic the handler ignores
IgnoredTopic == "conversation.admin.replied"

\* the source is handed to createMessage whatever the topic
FirstIndex_Always(topic) == 0

\* where the handler starts: at the source for 'conversation.user.created',
\* at the first part otherwise
FirstIndex(topic) == IF topic = "conversation.user.created" THEN 0 ELSE 1

\* what the Botpress client resolves getOrCreateConversation / getOrCreateUser with
BotConversation(tag) == [id |-> <<"conversation", tag>>]
BotUser(tag) == [id |-> <<"user", tag>>]

\* html.stripTags
stripTags(body) == <<"stripTags", body>>

ParsedData == safeParse(Get(req.body.json)).data
Item == ParsedData.data.item
Parts == Item.conversation_parts.conversation_parts
CurrentMessage == IF hi = 0 THEN Item.source ELSE Parts[hi]

HandlerInit ==
  /\ req \in Requests
  /\ hpc = "start"
  /\ calls = <<>>
  /\ conversation = None
  /\ hi = 0
  /\ herror = None
  \* nothing else is running
  /\ sdkIntegration = [name |-> "demo", version |-> "1.0.0"]
  /\ integration = None
  /\ pc = 1
  /\ modules = [m \in LeafVars |-> NoModule]
  /\ inst = NoInst
  /\ deps = NoDeps
  /\ reads = {}
  /\ prevOut = None
  /\ lastEdit = "first"
  /\ files = <<>>
  /\ fsDirs = {<<>>}
  /\ fsFiles = [p \in {} |-> "absent"]
  /\ wi = 1
  /\ wpc = "mkdir"
  /\ thrown = None
  /\ raised = None
  /\ wlog = <<>>
  /\ fsAtStart = fsFiles
  /\ prevRun = [result |-> "none", at |-> 0]
  /\ props = None
  /\ spc = "idle"
  /\ scalls = <<>>
  /\ reply = None
  /\ serror = None
  /\ integrationDef = [secrets |-> None]
  /\ argv = <<>>
  /\ ppc = "idle"
  /\ secretIdx = 1
  /\ values = EmptyMap
  /\ prompts = <<>>
  /\ answers = <<>>
  /\ presult = None
  /\ perror = None

\* the handler up to its first await
HandlerStart ==
  /\ UNCHANGED <<createVars, writeVars, sendVars, secretVars>>
  /\ hpc = "start"
  /\ IF req.body.kind = "empty"
     THEN hpc' = "returned" /\ UNCHANGED <<calls, herror>>
     ELSE IF req.body.kind = "text"
     THEN hpc' = "threw" /\ herror' = Some("SyntaxError") /\ UNCHANGED calls
     ELSE LET parsedBody == safeParse(Get(req.body.json))
              item == parsedBody.data.data.item
          IN  IF ~parsedBody.success
              THEN hpc' = "returned" /\ UNCHANGED <<calls, herror>>
              ELSE IF parsedBody.data.topic = IgnoredTopic
              THEN hpc' = "returned" /\ UNCHANGED <<calls, herror>>
              ELSE IF Some(ConfigAdminId) # item.admin_assignee_id
              THEN hpc' = "returned" /\ UNCHANGED <<calls, herror>>
              ELSE IF item.id = ""
              THEN /\ hpc' = "threw"
                   /\ herror' = Some("Handler received an conversation id")
                   /\ UNCHANGED calls
              ELSE /\ calls' = Append(calls, [op |-> "getOrCreateConversation",
                                              channel |-> "channel",
                                              tags |-> item.id])
                   /\ hpc' = "awaitConversation"
                   /\ UNCHANGED herror
  /\ UNCHANGED <<req, conversation, hi>>

\* getOrCreateConversation resolves
ConversationResolves ==
  /\ UNCHANGED <<createVars, writeVars, sendVars, secretVars>>
  /\ hpc = "awaitConversation"
  /\ conversation' = Some(BotConversation(Item.id))
  /\ hi' = FirstIndex(ParsedData.topic)
  /\ hpc' = "message"
  /\ UNCHANGED <<req, calls, herror>>

\* createMessage(intercomMessage) up to its first await
CreateMessageStart ==
  /\ UNCHANGED <<createVars, writeVars, sendVars, secretVars>>
  /\ hpc = "message"
  /\ hi <= Len(Parts)
  /\ LET m == CurrentMessage
     IN  IF m.id = ""
         THEN /\ hpc' = "threw"
              /\ herror' = Some("Handler received an empty message id")
              /\ UNCHANGED <<calls, hi>>
         ELSE IF m.body = None \/ m.body = Some("") \/ m.author.type = "bot"
         THEN /\ hi' = hi + 1
              /\ UNCHANGED <<hpc, calls, herror>>
         ELSE /\ calls' = Append(calls, [op |-> "getOrCreateUser", tags |-> m.author.id])
              /\ hpc' = "awaitUser"
              /\ UNCHANGED <<hi, herror>>
  /\ UNCHANGED <<req, conversation>>

\* getOrCreateUser resolves and createMessage is called on the client
UserResolves ==
  /\ UNCHANGED <<createVars, writeVars, sendVars, secretVars>>
  /\ hpc = "awaitUser"
  /\ LET m == CurrentMessage
         user == BotUser(m.author.id)
     IN  calls' = Append(calls, [op |-> "createMessage",
                                 tags |-> m.id,
                                 type |-> "text",
                                 userId |-> user.id,
                                 conversationId |-> Get(conversation).id,
                                 payload |-> [text |-> stripTags(Get(m.body))]])
  /\ hpc' = "awaitMessage"
  /\ UNCHANGED <<req, conversation, hi, herror>>

\* client.createMessage resolves: createMessage returns
MessageResolves ==
  /\ UNCHANGED <<createVars, writeVars, sendVars, secretVars>>
  /\ hpc = "awaitMessage"
  /\ hi' = hi + 1
  /\ hpc' = "message"
  /\ UNCHANGED <<req, calls, conversation, herror>>

\* an awaited client call rejects: the handler throws what it rejected with
ClientRejects ==
  /\ UNCHANGED <<createVars, writeVars, sendVars, secretVars>>
  /\ hpc \in {"awaitConversation", "awaitUser", "awaitMessage"}
  /\ hpc' = "threw"
  /\ herror' = Some("ClientError")
  /\ UNCHANGED <<req, calls, conversation, hi>>

\* the loop over conversation_parts is over
HandlerFinish ==
  /\ UNCHANGED <<createVars, writeVars, sendVars, secretVars>>
  /\ hpc = "message"
  /\ hi > Len(Parts)
  /\ hpc' = "returned"
  /\ UNCHANGED <<req, calls, conversation, hi, herror>>

HandlerNext ==
  \/ HandlerStart
  \/ ConversationResolves
  \/ CreateMessageStart
  \/ UserResolves
  \/ MessageResolves
  \/ ClientRejects
  \/ HandlerFinish

SpecHandler == HandlerInit /\ [][HandlerNext]_vars

\* what the four cases have in common: the request is dropped
Dropped ==
  \/ req.body.kind = "empty"
  \/ /\ req.body.kind = "json"
     /\ \/ ~safeParse(Get(req.body.json)).success
        \/ ParsedData.topic = "conversation.admin.replied"
        \/ Item.admin_assignee_id # Some(ConfigAdminId)

\* C11: on an empty body, a body that fails the schema, the topic
\* 'conversation.admin.replied' or an assignee other than the configured admin,
\* the handler calls the client not once and returns without throwing.
C11_DroppedWithoutCalls ==
  (hpc # "idle" /\ Dropped) => calls = <<>> /\ hpc \in {"start", "returned"} /\ herror = None

\* an admin's reply in a conversation of the configured admin has been dropped
C11_Witness ==
  /\ hpc = "returned"
  /\ req.body.kind = "json"
  /\ safeParse(Get(req.body.json)).success
  /\ ParsedData.topic = "conversation.admin.replied"
  /\ Item.admin_assignee_id = Some(ConfigAdminId)
  /\ Item.id # ""
  /\ Len(Parts) > 0

\* the notification got past every check of the handler's head
Accepted ==
  /\ hpc # "idle"
  /\ req.body.kind = "json"
  /\ ~Dropped
  /\ Item.id # ""

Skipped(m) == m.author.type = "bot" \/ m.body = None \/ m.body = Some("")

\* the messages in Intercom order: the source of a new conversation, then the parts
InOrder ==
  (IF ParsedData.topic = "conversation.user.created" THEN <<Item.source>> ELSE <<>>) \o Parts

RECURSIVE CallsFor(_)
\* the client calls the messages of l are to produce, up to the first empty id
CallsFor(l) ==
  IF l = <<>> \/ Head(l).id = "" THEN <<>>
  ELSE IF Skipped(Head(l)) THEN CallsFor(Tail(l))
  ELSE << [op |-> "getOrCreateUser", tags |-> Head(l).author.id],
          [op |-> "createMessage",
           tags |-> Head(l).id,
           type |-> "text",
           userId |-> BotUser(Head(l).author.id).id,
           conversationId |-> BotConversation(Item.id).id,
           payload |-> [text |-> stripTags(Get(Head(l).body))]] >>
       \o CallsFor(Tail(l))

ExpectedCalls ==
  <<[op |-> "getOrCreateConversation", channel |-> "channel", tags |-> Item.id]>>
    \o CallsFor(InOrder)

IsPrefix(a, b) == Len(a) <= Len(b) /\ SubSeq(b, 1, Len(a)) = a

HasEmptyId == \E k \in DOMAIN InOrder : InOrder[k].id = ""

\* C12: for an accepted notification the client calls are those of the source
\* (only of a new conversation) and then of the parts in list order, one after
\* the other; a bot's message or one without a body calls nothing, a
\* createMessage follows the getOrCreateUser of its author and targets the
\* conversation getOrCreateConversation gave, and an empty id ends the handler
\* with an error before any later part.
C12_MessagesInOrder ==
  Accepted =>
    /\ IsPrefix(calls, ExpectedCalls)
    /\ hpc = "returned" => calls = ExpectedCalls /\ ~HasEmptyId
    /\ herror = Some("Handler received an empty message id") =>
         calls = ExpectedCalls /\ HasEmptyId
    /\ \A k \in DOMAIN calls :
         calls[k].op = "createMessage" =>
           /\ k > 1
           /\ calls[k - 1].op = "getOrCreateUser"
           /\ calls[k].conversationId = Get(conversation).id

\* a reply whose source went unprocessed, whose first part was skipped and whose
\* second part became a bot message
C12_Witness ==
  /\ Accepted
  /\ hpc = "returned"
  /\ ParsedData.topic = "conversation.user.replied"
  /\ ~Skipped(Item.source)
  /\ Len(Parts) = 2
  /\ Skipped(Parts[1])
  /\ Len(calls) = 3
  /\ calls[3].op = "createMessage"
  /\ calls[3].tags = Parts[2].id

(* ------------------- Intercom: the outgoing messages ------------------- *)

\* conversation parts in a reply of Intercom
MaxReplyParts == 2

\* a string is the sequence of its fragments, '' the empty one
Str(text) == IF text = "" THEN <<>> ELSE <<[tag |-> "#text", attr |-> text, inner |-> <<>>]>>

\* html.p, html.b, html.li, html.ol, html.ul
Element(tag, inner) == <<[tag |-> tag, attr |-> "", inner |-> inner]>>

\* html.img
html_img(url) == <<[tag |-> "img", attr |-> url, inner |-> <<>>]>>

\* html.a
html_a(href, label) == <<[tag |-> "a", attr |-> href, inner |-> Str(label)]>>

RECURSIVE join(_)
\* list.join('')
join(l) == IF l = <<>> THEN <<>> ELSE Head(l) \o join(Tail(l))

RECURSIVE filter(_, _)
\* actions.filter(item => (item.action === 'url') = isUrl)
filter(actions, isUrl) ==
  IF actions = <<>> THEN <<>>
  ELSE (IF (Head(actions).action = "url") = isUrl THEN <<Head(actions)>> ELSE <<>>)
         \o filter(Tail(actions), isUrl)

composeMessage(parts) == join(parts)

createCard(card) ==
  LET image == IF card.imageUrl # None /\ Get(card.imageUrl) # ""
               THEN html_img(Get(card.imageUrl)) ELSE <<>>
      text == Element("b", Str(card.title))
                \o Element("p", IF card.subtitle # None /\ Get(card.subtitle) # ""
                                THEN Str(Get(card.subtitle)) ELSE <<>>)
      urls == filter(card.actions, TRUE)
      links == [k \in DOMAIN urls |-> Element("li", html_a(urls[k].value, urls[k].label))]
      others == filter(card.actions, FALSE)
      choices == join([k \in DOMAIN others |-> Element("li", Str(others[k].value))])
  IN  composeMessage(<< image,
                        text,
                        IF Len(links) > 0 THEN Element("ul", join(links)) ELSE <<>>,
                        Element("p", Str("Type one of the following options:")),
                        Element("ol", choices) >>)

formatGoogleMapLink(payload) ==
  Str("https://www.google.com/maps/search/?api=1&query=")
    \o Str(ToString(payload.latitude)) \o Str(",") \o Str(ToString(payload.longitude))

\* the message of a dropdown and of a choice
OptionsMessage(payload) ==
  LET choices == [k \in DOMAIN payload.options |-> Element("li", Str(payload.options[k].value))]
  IN  composeMessage(<< Element("p", Str(payload.text)),
                        Element("p", Str("Type one of the following options:")),
                        IF Len(choices) > 0 THEN Element("ol", join(choices)) ELSE <<>> >>)

CardAction(action) == [action |-> action, label |-> "go", value |-> "v"]

Cards ==
  { [title |-> "T", subtitle |-> st, imageUrl |-> iu, actions |-> acts] :
      st \in {None, Some("S")}, iu \in {None, Some("i.png")},
      acts \in { <<>>, <<CardAction("url")>>, <<CardAction("say")>>,
                 <<CardAction("url"), CardAction("postback")>> } }

OptionLists == { <<>>, <<[label |-> "one", value |-> "1"]>>,
                 <<[label |-> "one", value |-> "1"], [label |-> "two", value |-> "2"]>> }

\* the payloads of each message type of the channel
Payloads(type) ==
  CASE type = "text" -> {[text |-> t] : t \in {"", "hi"}}
    [] type = "image" -> {[imageUrl |-> "i.png"]}
    [] type = "markdown" -> {[markdown |-> t] : t \in {"", "**hi**"}}
    [] type = "audio" -> {[audioUrl |-> "a.mp3"]}
    [] type = "video" -> {[videoUrl |-> "v.mp4"]}
    [] type = "file" -> {[fileUrl |-> "f.pdf"]}
    [] type = "location" -> {[latitude |-> la, longitude |-> lo] : la \in {0, 45}, lo \in {0, 9}}
    [] type = "carousel" -> {[items |-> <<>>]} \cup {[items |-> <<c>>] : c \in Cards}
                              \cup {[items |-> <<c, c>>] : c \in Cards}
    [] type = "card" -> Cards
    [] type = "dropdown" -> {[text |-> "pick", options |-> o] : o \in OptionLists}
    [] type = "choice" -> {[text |-> "pick", options |-> o] : o \in OptionLists}

MessageTypes == { "text", "image", "markdown", "audio", "video", "file", "location",
                  "carousel", "card", "dropdown", "choice" }

\* what a channel message handler is called with
MessageProps ==
  UNION {{[type |-> t, payload |-> pl, conversation |-> [tags |-> tg]] :
            pl \in Payloads(t), tg \in {None, Some("c1")}} : t \in MessageTypes}

\* the body a message handler hands to sendMessage
Body(type, payload) ==
  CASE type = "text" -> Str(payload.text)
    [] type = "markdown" -> Str(payload.markdown)
    [] type \in {"image", "audio", "video", "file"} -> <<>>
    [] type = "location" -> formatGoogleMapLink(payload)
    [] type = "carousel" -> join([k \in DOMAIN payload.items |-> createCard(payload.items[k])])
    [] type = "card" -> createCard(payload)
    [] type \in {"dropdown", "choice"} -> OptionsMessage(payload)

\* the attachmentUrls a message handler hands to sendMessage
AttachmentUrls(type, payload) ==
  CASE type = "image" -> Some(<<payload.imageUrl>>)
    [] type = "audio" -> Some(<<payload.audioUrl>>)
    [] type = "video" -> Some(<<payload.videoUrl>>)
    [] type = "file" -> Some(<<payload.fileUrl>>)
    [] OTHER -> None

\* the conversation parts Intercom can answer with
ReplyParts ==
  UNION {{l \in [1..n -> {[id |-> i] : i \in {None} \cup {Some(NamePool[k]) : k \in 1..n}}] :
            \A k \in 1..n : l[k].id \in {None, Some(NamePool[k])}} : n \in 0..MaxReplyParts}

\* the tag would be the id of the first part
AckTag_First(conversationParts) ==
  IF conversationParts = <<>> THEN "" ELSE OrElse(conversationParts[1].id, "")

\* `${conversationParts.at(-1)?.id ?? ''}`
AckTag(conversationParts) ==
  IF conversationParts = <<>> THEN ""
  ELSE OrElse(conversationParts[Len(conversationParts)].id, "")

SendInit ==
  /\ props \in {Some(mp) : mp \in MessageProps}
  /\ spc = "start"
  /\ scalls = <<>>
  /\ reply = None
  /\ serror = None
  \* nothing else is running
  /\ sdkIntegration = [name |-> "demo", version |-> "1.0.0"]
  /\ integration = None
  /\ pc = 1
  /\ modules = [m \in LeafVars |-> NoModule]
  /\ inst = NoInst
  /\ deps = NoDeps
  /\ reads = {}
  /\ prevOut = None
  /\ lastEdit = "first"
  /\ files = <<>>
  /\ fsDirs = {<<>>}
  /\ fsFiles = [p \in {} |-> "absent"]
  /\ wi = 1
  /\ wpc = "mkdir"
  /\ thrown = None
  /\ raised = None
  /\ wlog = <<>>
  /\ fsAtStart = fsFiles
  /\ prevRun = [result |-> "none", at |-> 0]
  /\ req = [body |-> [kind |-> "empty", json |-> None]]
  /\ hpc = "idle"
  /\ calls = <<>>
  /\ conversation = None
  /\ hi = 0
  /\ herror = None
  /\ integrationDef = [secrets |-> None]
  /\ argv = <<>>
  /\ ppc = "idle"
  /\ secretIdx = 1
  /\ values = EmptyMap
  /\ prompts = <<>>
  /\ answers = <<>>
  /\ presult = None
  /\ perror = None

\* the message handler calls sendMessage, which calls replyByIdAsAdmin
SendMessage ==
  /\ UNCHANGED <<createVars, writeVars, handlerVars, secretVars>>
  /\ spc = "start"
  /\ LET mp == Get(props)
     IN  scalls' = Append(scalls, [op |-> "replyByIdAsAdmin",
                                   id |-> OrElse(mp.conversation.tags, ""),
                                   adminId |-> ConfigAdminId,
                                   messageType |-> "comment",
                                   body |-> Body(mp.type, mp.payload),
                                   attachmentUrls |-> AttachmentUrls(mp.type, mp.payload)])
  /\ spc' = "awaitReply"
  /\ UNCHANGED <<props, reply, serror>>

\* replyByIdAsAdmin resolves and ack is called
ReplyResolves ==
  /\ UNCHANGED <<createVars, writeVars, handlerVars, secretVars>>
  /\ spc = "awaitReply"
  /\ \E conversationParts \in ReplyParts :
       /\ reply' = Some([ok |-> TRUE, conversation_parts |-> conversationParts])
       /\ scalls' = Append(scalls, [op |-> "ack", tags |-> AckTag(conversationParts)])
  /\ spc' = "awaitAck"
  /\ UNCHANGED <<props, serror>>

\* replyByIdAsAdmin rejects: sendMessage and the message handler throw
ReplyRejects ==
  /\ UNCHANGED <<createVars, writeVars, handlerVars, secretVars>>
  /\ spc = "awaitReply"
  /\ reply' = Some([ok |-> FALSE, conversation_parts |-> <<>>])
  /\ serror' = Some("ReplyError")
  /\ spc' = "threw"
  /\ UNCHANGED <<props, scalls>>

\* ack resolves: sendMessage and the message handler return
AckResolves ==
  /\ UNCHANGED <<createVars, writeVars, handlerVars, secretVars>>
  /\ spc = "awaitAck"
  /\ spc' = "returned"
  /\ UNCHANGED <<props, scalls, reply, serror>>

\* ack rejects
AckRejects ==
  /\ UNCHANGED <<createVars, writeVars, handlerVars, secretVars>>
  /\ spc = "awaitAck"
  /\ serror' = Some("AckError")
  /\ spc' = "threw"
  /\ UNCHANGED <<props, scalls, reply>>

SendNext ==
  \/ SendMessage
  \/ ReplyResolves
  \/ ReplyRejects
  \/ AckResolves
  \/ AckRejects

SpecSend == SendInit /\ [][SendNext]_vars

Acks == {k \in DOMAIN scalls : scalls[k].op = "ack"}

ReplyFailed == reply # None /\ ~Get(reply).ok

\* C13: whatever the message type, ack is called once, after replyByIdAsAdmin
\* has succeeded, with the id of the reply's last conversation part (the empty
\* string when there is none) as tag; when the reply fails ack is never called
\* and the error reaches the caller.
C13_AckOnceAfterReply ==
  spc # "idle" =>
    /\ Cardinality(Acks) <= 1
    /\ \A k \in Acks :
         /\ k = 2
         /\ scalls[1].op = "replyByIdAsAdmin"
         /\ reply # None /\ Get(reply).ok
         /\ LET l == Get(reply).conversation_parts
            IN  scalls[k].tags = IF Len(l) = 0 THEN ""
                                 ELSE IF l[Len(l)].id = None THEN ""
                                 ELSE Get(l[Len(l)].id)
    /\ spc \in {"awaitAck", "returned"} => Cardinality(Acks) = 1
    /\ ReplyFailed => Acks = {} /\ spc = "threw" /\ serror = Some("ReplyError")

\* a carousel has been acknowledged with the second of two parts
C13_Witness ==
  /\ spc = "returned"
  /\ Get(props).type = "carousel"
  /\ Len(Get(reply).conversation_parts) = 2
  /\ Get(reply).conversation_parts[1].id # None
  /\ scalls[2].tags = NamePool[2]

(* --------------------------- promptSecrets ---------------------------- *)

\* entries of argv.secrets
MaxArgv == 2

\* a string is the sequence of its characters here
ArgvPool ==
  { <<"A", "=", "v">>, <<"A", "=", "v", "=", "w">>, <<"A">>, <<"A", "=">>,
    <<"B", "=", "v">>, <<"=", "v">>, <<"C", "=", "v">> }

ArgvLists == UNION {[1..n -> ArgvPool] : n \in 0..MaxArgv}

\* integrationDef.secrets: undefined, or a list of distinct names
SecretDefinitions == {None, Some(<<>>), Some(<< <<"A">> >>), Some(<< <<"A">>, <<"B">> >>)}

\* what the user can answer a prompt with: nothing, the empty text, a text
PromptAnswers == {None, Some(<<>>), Some(<<"p">>)}

\* text.indexOf(separator), counted from 1; 0 for JavaScript's -1
indexOf(text, separator) ==
  IF \E i \in DOMAIN text : text[i] = separator
  THEN CHOOSE i \in DOMAIN text :
         text[i] = separator /\ \A j \in 1..(i - 1) : text[j] # separator
  ELSE 0

_splitOnce(text, separator) ==
  LET index == indexOf(text, separator)
  IN  IF index = 0
      THEN <<text, None>>
      ELSE <<SubSeq(text, 1, index - 1), Some(SubSeq(text, index + 1, Len(text)))>>

\* parsed[key] = value: an own key keeps its place, a new one goes last
SetKey(parsed, key, value) ==
  IF \E i \in DOMAIN parsed : parsed[i].key = key
  THEN [i \in DOMAIN parsed |->
          IF parsed[i].key = key THEN [key |-> key, value |-> value] ELSE parsed[i]]
  ELSE Append(parsed, [key |-> key, value |-> value])

BotpressCLIError(message) == [class |-> "BotpressCLIError", message |-> message]

RECURSIVE ParseFrom(_, _)
\* the loop of _parseArgvSecrets
ParseFrom(argvSecrets, parsed) ==
  IF argvSecrets = <<>> THEN [error |-> None, parsed |-> parsed]
  ELSE LET kv == _splitOnce(Head(argvSecrets), "=")
       IN  IF kv[2] = None \/ Get(kv[2]) = <<>>
           THEN [error |-> Some(BotpressCLIError("Secret is missing a value")),
                 parsed |-> parsed]
           ELSE ParseFrom(Tail(argvSecrets), SetKey(parsed, kv[1], Get(kv[2])))

_parseArgvSecrets(argvSecrets) == ParseFrom(argvSecrets, <<>>)

\* every own key of secretArgv counts, the empty one too
IsInvalid_Strict(invalidSecret) == invalidSecret # None

\* if (invalidSecret): undefined and '' are falsy
IsInvalid(invalidSecret) == invalidSecret # None /\ Get(invalidSecret) # <<>>

\* Object.keys(secretArgv).find(s => !secretDefinitions.includes(s))
FindInvalid(secretArgv, secretDefinitions) ==
  LET bad == {i \in DOMAIN secretArgv : secretArgv[i].key \notin Range(secretDefinitions)}
  IN  IF bad = {} THEN None
      ELSE Some(secretArgv[CHOOSE i \in bad : \A j \in bad : i <= j].key)

\* secretArgv[secretDef]
Lookup(secretArgv, secretDef) ==
  LET at == {i \in DOMAIN secretArgv : secretArgv[i].key = secretDef}
  IN  IF at = {} THEN None ELSE Some(secretArgv[CHOOSE i \in at : TRUE].value)

\* codegen.secretEnvVariableName
secretEnvVariableName(secretName) == <<"SECRET_">> \o secretName

\* _.mapKeys(values, (_v, k) => codegen.secretEnvVariableName(k))
mapKeys(vals) ==
  [e \in {secretEnvVariableName(k) : k \in DOMAIN vals} |->
     vals[CHOOSE k \in DOMAIN vals : secretEnvVariableName(k) = e]]

SetValue(vals, k, v) == [x \in DOMAIN vals \cup {k} |-> IF x = k THEN v ELSE vals[x]]

secretArgv == _parseArgvSecrets(argv).parsed

SecretsInit ==
  /\ integrationDef \in {[secrets |-> d] : d \in SecretDefinitions}
  /\ argv \in ArgvLists
  /\ ppc = "start"
  /\ secretIdx = 1
  /\ values = EmptyMap
  /\ prompts = <<>>
  /\ answers = <<>>
  /\ presult = None
  /\ perror = None
  \* nothing else is running
  /\ sdkIntegration = [name |-> "demo", version |-> "1.0.0"]
  /\ integration = None
  /\ pc = 1
  /\ modules = [m \in LeafVars |-> NoModule]
  /\ inst = NoInst
  /\ deps = NoDeps
  /\ reads = {}
  /\ prevOut = None
  /\ lastEdit = "first"
  /\ files = <<>>
  /\ fsDirs = {<<>>}
  /\ fsFiles = [p \in {} |-> "absent"]
  /\ wi = 1
  /\ wpc = "mkdir"
  /\ thrown = None
  /\ raised = None
  /\ wlog = <<>>
  /\ fsAtStart = fsFiles
  /\ prevRun = [result |-> "none", at |-> 0]
  /\ req = [body |-> [kind |-> "empty", json |-> None]]
  /\ hpc = "idle"
  /\ calls = <<>>
  /\ conversation = None
  /\ hi = 0
  /\ herror = None
  /\ props = None
  /\ spc = "idle"
  /\ scalls = <<>>
  /\ reply = None
  /\ serror = None

\* promptSecrets up to its loop
PromptSecretsStart ==
  /\ UNCHANGED <<createVars, writeVars, handlerVars, sendVars>>
  /\ ppc = "start"
  /\ IF integrationDef.secrets = None
     THEN /\ presult' = Some(EmptyMap)
          /\ ppc' = "returned"
          /\ UNCHANGED perror
     ELSE LET parse == _parseArgvSecrets(argv)
              invalidSecret == FindInvalid(parse.parsed, Get(integrationDef.secrets))
          IN  IF parse.error # None
              THEN /\ perror' = parse.error
                   /\ ppc' = "threw"
                   /\ UNCHANGED presult
              ELSE IF IsInvalid(invalidSecret)
              THEN /\ perror' = Some(BotpressCLIError("Secret is not defined in integration definition"))
                   /\ ppc' = "threw"
                   /\ UNCHANGED presult
              ELSE /\ ppc' = "loop"
                   /\ UNCHANGED <<presult, perror>>
  /\ UNCHANGED <<integrationDef, argv, secretIdx, values, prompts, answers>>

\* one declared secret: taken from argv, or asked for
NextSecret ==
  /\ UNCHANGED <<createVars, writeVars, handlerVars, sendVars>>
  /\ ppc = "loop"
  /\ secretIdx <= Len(Get(integrationDef.secrets))
  /\ LET secretDef == Get(integrationDef.secrets)[secretIdx]
         argvSecret == Lookup(secretArgv, secretDef)
     IN  IF argvSecret # None /\ Get(argvSecret) # <<>>
         THEN /\ values' = SetValue(values, secretDef, Get(argvSecret))
              /\ secretIdx' = secretIdx + 1
              /\ UNCHANGED <<ppc, prompts>>
         ELSE /\ prompts' = Append(prompts, secretDef)
              /\ ppc' = "awaitPrompt"
              /\ UNCHANGED <<values, secretIdx>>
  /\ UNCHANGED <<integrationDef, argv, answers, presult, perror>>

\* the prompt resolves
PromptResolves ==
  /\ UNCHANGED <<createVars, writeVars, handlerVars, sendVars>>
  /\ ppc = "awaitPrompt"
  /\ \E prompted \in PromptAnswers :
       /\ answers' = Append(answers, prompted)
       /\ IF prompted = None \/ Get(prompted) = <<>>
          THEN /\ perror' = Some(BotpressCLIError("Secret is required"))
               /\ ppc' = "threw"
               /\ UNCHANGED <<values, secretIdx>>
          ELSE /\ values' = SetValue(values, Get(integrationDef.secrets)[secretIdx], Get(prompted))
               /\ secretIdx' = secretIdx + 1
               /\ ppc' = "loop"
               /\ UNCHANGED perror
  /\ UNCHANGED <<integrationDef, argv, prompts, presult>>

\* after the loop the keys become environment variable names
ReturnSecrets ==
  /\ UNCHANGED <<createVars, writeVars, handlerVars, sendVars>>
  /\ ppc = "loop"
  /\ secretIdx > Len(Get(integrationDef.secrets))
  /\ presult' = Some(mapKeys(values))
  /\ ppc' = "returned"
  /\ UNCHANGED <<integrationDef, argv, secretIdx, values, prompts, answers, perror>>

SecretsNext ==
  \/ PromptSecretsStart
  \/ NextSecret
  \/ PromptResolves
  \/ ReturnSecrets

SpecSecrets == SecretsInit /\ [][SecretsNext]_vars

\* the first '=' of an argv secret, 0 when it has none
FirstEq(s) ==
  IF \A i \in DOMAIN s : s[i] # "=" THEN 0
  ELSE CHOOSE i \in DOMAIN s : s[i] = "=" /\ \A j \in DOMAIN s : s[j] = "=" => i <= j

NoValue(s) == FirstEq(s) = 0 \/ FirstEq(s) = Len(s)
NameIn(s) == SubSeq(s, 1, FirstEq(s) - 1)
ValueIn(s) == SubSeq(s, FirstEq(s) + 1, Len(s))

Declared == Range(Get(integrationDef.secrets))

\* an argv secret is to be rejected
MustReject ==
  \E k \in DOMAIN argv : NoValue(argv[k]) \/ NameIn(argv[k]) \notin Declared

\* the k-th prompt was for secret s and got a text
PromptedFor(s, v) ==
  \E k \in DOMAIN answers : prompts[k] = s /\ answers[k] = Some(v) /\ v # <<>>

\* C14: with declared secrets, an argv secret without a value or with a name
\* that is not declared is rejected with a BotpressCLIError before any prompt;
\* otherwise the result has one entry per declared secret under its
\* environment variable name, the argv value (the text after the first '=')
\* when given and the prompted one otherwise, an empty answer ending in
\* 'Secret is required'; without a secrets list the result is empty and
\* nothing is prompted.
C14_ValidatesBeforePrompting ==
  ppc # "idle" =>
    IF integrationDef.secrets = None
    THEN /\ prompts = <<>>
         /\ ppc \in {"start", "returned"}
         /\ ppc = "returned" => presult = Some(EmptyMap)
    ELSE IF MustReject
    THEN /\ prompts = <<>>
         /\ ppc \in {"start", "threw"}
         /\ ppc = "threw" => /\ Get(perror).class = "BotpressCLIError"
                             /\ Get(perror).message # "Secret is required"
    ELSE /\ ppc = "threw" =>
              /\ perror = Some(BotpressCLIError("Secret is required"))
              /\ answers # <<>>
              /\ answers[Len(answers)] \in {None, Some(<<>>)}
         /\ ppc = "returned" =>
              /\ DOMAIN Get(presult) = {secretEnvVariableName(sec) : sec \in Declared}
              /\ \A sec \in Declared :
                   LET given == {k \in DOMAIN argv : NameIn(argv[k]) = sec}
                       v == Get(presult)[secretEnvVariableName(sec)]
                   IN  IF given # {}
                       THEN /\ \E k \in given : v = ValueIn(argv[k])
                            /\ sec \notin Range(prompts)
                       ELSE PromptedFor(sec, v)

\* a result with the argv value of A, later '=' kept, and the prompted value of B
C14_Witness ==
  /\ ppc = "returned"
  /\ argv = << <<"A", "=", "v", "=", "w">> >>
  /\ prompts = << <<"B">> >>
  /\ Get(presult)[secretEnvVariableName(<<"A">>)] = <<"v", "=", "w">>
  /\ Get(presult)[secretEnvVariableName(<<"B">>)] = <<"p">>

====
